---- MODULE Spec2Model ----
(***************************************************************************)
(* Authentication and authorization core of MonitorDB.                     *)
(*                                                                         *)
(* The model follows app/services/auth_service.py (login with account      *)
(* lockout, refresh, logout, role update) and app/security/auth.py (the    *)
(* request-time gate built on verify_jwt_token).  Every await of a store   *)
(* call or of the notifier is one step of a request, so the requests of    *)
(* different callers interleave exactly at those points.  Time is counted  *)
(* in minutes.                                                             *)
(***************************************************************************)
EXTENDS Integers, Sequences, FiniteSets, TLC

----------------------------------------------------------------------------
(* Bounds of the exploration *)

MaxTime == 60          \* the clock stops advancing here (minutes)
MaxJti == 4            \* at most this many tokens are issued in a run
MaxRoleUpdates == 2    \* at most this many update_user_role calls in a run

(* Program constants *)

max_failed_attempts == 5
lockout_duration_minutes == 30
session_timeout_hours == 24
JWT_ACCESS_TOKEN_EXPIRE_MINUTES == 30
JWT_REFRESH_TOKEN_EXPIRE_DAYS == 7

None == "None"          \* Python None in a string-valued field
NoTime == -1            \* Python None in a timestamp field (unset)

----------------------------------------------------------------------------
(* Role-permission registry, app/security/roles.py *)

Role == {"admin", "manager", "analyst", "operator", "readonly", "guest"}

ROLE_HIERARCHY ==
    [r \in Role |->
        CASE r = "admin"    -> 100
          [] r = "manager"  -> 80
          [] r = "analyst"  -> 60
          [] r = "operator" -> 40
          [] r = "readonly" -> 20
          [] r = "guest"    -> 10]

ClientePerms == {"cliente:create", "cliente:read", "cliente:update",
                 "cliente:delete", "cliente:list", "cliente:export"}
TransacaoPerms == {"transacao:create", "transacao:read", "transacao:update",
                   "transacao:delete", "transacao:list", "transacao:approve",
                   "transacao:export"}
LogPerms == {"log:create", "log:read", "log:delete", "log:list", "log:export"}
MonitoringPerms == {"monitoring:read", "monitoring:metrics",
                    "monitoring:alerts", "monitoring:config"}
IntegrationPerms == {"integration:viacep", "integration:banking",
                     "integration:notifications"}
AdminPerms == {"admin:users", "admin:roles", "admin:system",
               "admin:database", "admin:backup"}
AuditPerms == {"audit:read", "audit:export"}

Permission ==
    ClientePerms \cup TransacaoPerms \cup LogPerms \cup MonitoringPerms
        \cup IntegrationPerms \cup AdminPerms \cup AuditPerms

ROLE_PERMISSIONS ==
    [r \in Role |->
        CASE r = "admin" -> Permission
          [] r = "manager" ->
                ClientePerms
                \cup (TransacaoPerms \ {"transacao:delete"})
                \cup {"log:read", "log:list", "log:export"}
                \cup {"monitoring:read", "monitoring:metrics", "monitoring:alerts"}
                \cup IntegrationPerms
                \cup AuditPerms
          [] r = "analyst" ->
                {"cliente:read", "cliente:list", "cliente:export",
                 "transacao:read", "transacao:list", "transacao:export",
                 "log:read", "log:list", "log:export",
                 "monitoring:read", "monitoring:metrics",
                 "integration:viacep",
                 "audit:read", "audit:export"}
          [] r = "operator" ->
                {"cliente:create", "cliente:read", "cliente:update", "cliente:list",
                 "transacao:create", "transacao:read", "transacao:update",
                 "transacao:list",
                 "log:create", "log:read", "log:list",
                 "integration:viacep"}
          [] r = "readonly" ->
                {"cliente:read", "cliente:list",
                 "transacao:read", "transacao:list",
                 "log:read", "log:list",
                 "monitoring:read"}
          [] r = "guest" -> {"cliente:read", "transacao:read"}]

(* RolePermissions.get_permissions(role_enum): the permission set of a     *)
(* recognized role, as the registry resolves it.                           *)
get_permissions(role) == ROLE_PERMISSIONS[role]

(* str.lower() on the e-mail addresses and role names the model uses *)
Lower(e) ==
    IF e \in {"BOB@example.com", "Bob@Example.com"} THEN "bob@example.com"
    ELSE IF e = "ADMIN" THEN "admin"
    ELSE e

(* ROLE_PERMISSIONS.get(role, set()) *)
permissions_get(role) ==
    IF role \in DOMAIN ROLE_PERMISSIONS THEN ROLE_PERMISSIONS[role] ELSE {}

(* get_role_permissions(role) of app/security/roles.py *)
get_role_permissions(role) == permissions_get(Lower(role))

(* variant: the role is looked up as it was written *)
has_permission_as_written(user_role, required_permission) ==
    required_permission \in permissions_get(user_role)

(* has_permission(user_role, required_permission) of app/security/roles.py *)
has_permission(user_role, required_permission) ==
    LET user_permissions == permissions_get(Lower(user_role))
    IN required_permission \in user_permissions

(* Role(value): the Role enumeration accepts exactly its six values and    *)
(* raises ValueError on anything else.                                     *)
IsRole(value) == value \in Role

----------------------------------------------------------------------------
(* Data of the model *)

UserIds == {"u1", "u2"}
Procs == {"p1", "p2"}           \* concurrent requests being served
Passwords == {"good", "bad"}
LoginEmails == {"bob@example.com", "BOB@example.com", "ghost@example.com"}
TickSteps == {lockout_duration_minutes}
UtcOffsets == {0, -180}         \* a server on UTC, one on Brasilia time

AccessTtl == JWT_ACCESS_TOKEN_EXPIRE_MINUTES
RefreshTtl == JWT_REFRESH_TOKEN_EXPIRE_DAYS * 24 * 60

(* PasswordUtils: a hash keeps the password it was made from and a salt;   *)
(* verification succeeds exactly for that password.                        *)
hash_password(password, salt) == [pw |-> password, salt |-> salt]
verify_password(password, hashed) == hashed.pw = password

(* PasswordUtils.validate_password_strength(password): the rules of the    *)
(* policy that the password breaks; is_strong is "errors is empty"         *)
validate_password_strength(password) ==
    IF password = "weak"
    THEN {"min_length", "require_upper", "require_digit", "require_special"}
    ELSE {}

(* A user document as create_user lays it out *)
NewUser(id, email, password, role, status) ==
    [id |-> id,
     email |-> Lower(email),
     hashed_password |-> hash_password(password, 1),
     role |-> role,
     status |-> status,
     last_login |-> NoTime,
     failed_login_attempts |-> 0,
     locked_until |-> NoTime,
     permissions |-> get_permissions(role)]

NoDoc ==
    [id |-> None, email |-> None, hashed_password |-> hash_password(None, 0),
     role |-> None, status |-> None, last_login |-> NoTime,
     failed_login_attempts |-> 0, locked_until |-> NoTime, permissions |-> {}]

(* Signed tokens.  sig is "good" for a token signed with the process key;  *)
(* idkey is the payload key that holds the user id: "sub" in the tokens of *)
(* JWTManager, "user_id" (beside "username") in those of                   *)
(* generate_jwt_token.                                                     *)
MkToken(type, idkey, sub, email, role, perms, iat, ttl, id) ==
    [token_type |-> type, idkey |-> idkey, sub |-> sub, email |-> email,
     role |-> role, permissions |-> perms, iat |-> iat, exp |-> iat + ttl,
     jti |-> id, sig |-> "good"]

NoToken ==
    [token_type |-> None, idkey |-> None, sub |-> None, email |-> None,
     role |-> None, permissions |-> {}, iat |-> NoTime, exp |-> NoTime, jti |-> -1,
     sig |-> None]

(* verify_jwt_token: the TokenData made of a decoded payload; the model    *)
(* of the class has the fields the class has, but for username             *)
TokenData(payload) ==
    [user_id |-> payload.sub, email |-> payload.email, role |-> payload.role,
     permissions |-> payload.permissions, exp |-> payload.exp,
     jti |-> payload.jti]

(* A string that is not a JWT at all *)
Garbage == [NoToken EXCEPT !.sig = "malformed"]

(* JWTManager.create_access_token(data) / create_refresh_token(data) *)
create_access_token(data, t, id) ==
    MkToken("access", "sub", data.sub, data.email, data.role, data.permissions,
            t, AccessTtl, id)
create_refresh_token(sub, t, id) ==
    MkToken("refresh", "sub", sub, None, None, {}, t, RefreshTtl, id)

(* generate_jwt_token(user_data, token_type) of app/security/auth.py *)
generate_jwt_token(user_data, token_type, t, id) ==
    MkToken(token_type, "user_id", user_data.id, user_data.email, user_data.role,
            user_data.permissions, t,
            IF token_type = "access" THEN AccessTtl ELSE RefreshTtl, id)

(* HTTPException(status_code, detail); arg is a timestamp the detail shows *)
Response(status, detail, arg) == [status |-> status, detail |-> detail, arg |-> arg]

VARIABLES
    now,          \* the clock, minutes
    users,        \* db.users: user id -> document, for the users that exist
    sessions,     \* db.user_sessions: set of session documents
    issued,       \* every token signed so far
    jti,          \* number of tokens signed so far (names the next jti)
    pc,           \* per request: the await it is suspended at
    loc,          \* per request: the local variables of authenticate_user/login
    resp,         \* the last response sent at the present time, with its request
    roleUpdates,  \* number of update_user_role calls so far
    streak,       \* history: consecutive wrong-password logins answered 401
    deadline,     \* history: when the lock owed to the streak ends
    okSince,      \* history: a password verification succeeded since the last lock
    tz_aware,     \* the store hands datetimes back with their tzinfo
    utc_offset,   \* minutes the server's local time is ahead of UTC
    transacao     \* the BankingTransaction that processar_transacao returned last

vars == <<now, users, sessions, issued, jti, pc, loc, resp, roleUpdates,
          streak, deadline, okSince, tz_aware, utc_offset, transacao>>

----------------------------------------------------------------------------
(* Local state of a request and the reply it sends *)

IdleLoc ==
    [password |-> None, doc |-> NoDoc, unlocked |-> FALSE,
     update_data |-> [failed_login_attempts |-> 0, locked_until |-> NoTime],
     verified_at |-> NoTime, access_token |-> NoToken,
     refresh_token |-> NoToken, mustLock |-> FALSE, new_password |-> None]

NoReply ==
    [op |-> None, status |-> 0, detail |-> None, arg |-> NoTime,
     access_token |-> NoToken, refresh_token |-> NoToken,
     user_id |-> None, role |-> None,
     email |-> None, wrong |-> FALSE, presented |-> NoToken,
     required |-> None, mustLock |-> FALSE,
     result |-> FALSE, decoded |-> TokenData(NoToken),
     new_password |-> None, errors |-> {}]

(* an error reply of operation op to the request req *)
ErrorReply(op, r, req) ==
    [req EXCEPT !.op = op, !.status = r.status, !.detail = r.detail,
                !.arg = r.arg]

(* a Token(...) reply *)
TokenReply(op, access, refresh, user_id, role, req) ==
    [req EXCEPT !.op = op, !.status = 200, !.detail = "bearer",
                !.access_token = access, !.refresh_token = refresh,
                !.user_id = user_id, !.role = role]

LoginRequest(l) ==
    [NoReply EXCEPT !.email = l.doc.email,
                    !.wrong = ~verify_password(l.password, l.doc.hashed_password),
                    !.mustLock = l.mustLock]

----------------------------------------------------------------------------
(* AuthService.authenticate_user and AuthService.login,                    *)
(* app/services/auth_service.py                                            *)

(* users_collection.find_one({"email": email.lower()}) *)
find_by_email(email) ==
    IF \E u \in DOMAIN users : users[u].email = Lower(email)
    THEN CHOOSE u \in DOMAIN users : users[u].email = Lower(email)
    ELSE None

(* login: "if not user: raise 401" *)
InvalidCredentials == Response(401, "Email ou senha incorretos", NoTime)

(* variant: a lookup miss answered with an error of its own *)
NotFoundResponseOwnError == Response(404, "Usuario nao encontrado", NoTime)

(* authenticate_user on a lookup miss returns None, which login answers    *)
(* with InvalidCredentials                                                 *)
NotFoundResponse == InvalidCredentials

(* variant: the comparison the other way round *)
IsLockedNowReversed(doc, t) == doc.locked_until # NoTime /\ t > doc.locked_until

(* authenticate_user: the account is locked at time t *)
IsLockedNow(doc, t) == doc.locked_until # NoTime /\ t < doc.locked_until

(* "datetime.now(timezone.utc) < locked_until" raises TypeError when the   *)
(* store handed locked_until back without tzinfo, as the client of         *)
(* app/database/mongo_client.py (made without tz_aware) does; "except      *)
(* Exception" then returns None                                            *)
CompareRaises(doc) == doc.locked_until # NoTime /\ ~tz_aware

AccountLocked(doc) == Response(423, "Conta bloqueada ate", doc.locked_until)

(* {"$unset": {"locked_until": ""}, "$set": {"failed_login_attempts": 0}} *)
UnlockUpdate(d) ==
    [d EXCEPT !.locked_until = NoTime, !.failed_login_attempts = 0]

(* update_data of a failed password verification at time t, computed from  *)
(* the document that find_one returned                                     *)
FailedUpdateData(doc, t) ==
    LET failed_attempts == doc.failed_login_attempts + 1
    IN [failed_login_attempts |-> failed_attempts,
        locked_until |-> IF failed_attempts >= max_failed_attempts
                         THEN t + lockout_duration_minutes
                         ELSE NoTime]

(* {"$set": update_data}: locked_until is written only when it is a key *)
ApplyFailedUpdate(d, update_data) ==
    [d EXCEPT !.failed_login_attempts = update_data.failed_login_attempts,
              !.locked_until = IF update_data.locked_until # NoTime
                               THEN update_data.locked_until ELSE @]

(* variant: the update forgets the counter *)
SuccessUpdateKeepsCount(d, t) ==
    [d EXCEPT !.last_login = t, !.locked_until = NoTime]

(* the update of a successful password verification at time t *)
SuccessUpdate(d, t) ==
    [d EXCEPT !.last_login = t, !.failed_login_attempts = 0,
              !.locked_until = NoTime]

(* login: "if user.status != UserStatus.ACTIVE: raise 403" *)
AccountInactive(doc) == Response(403, "Conta esta", NoTime)

InFlight(p) == pc[p] # "idle"

(* requests that will sign two tokens if they run to their end *)
WillSign(p) ==
    InFlight(p) /\ verify_password(loc[p].password, loc[p].doc.hashed_password)

(* history of the claim on lockout: the lock owed to five consecutive      *)
(* failures has run out at time t                                          *)
StreakOver(u, t) == streak[u] >= max_failed_attempts /\ t >= deadline[u]

(* from "# Verifica senha" to the next await *)
Proceed(p, l) ==
    IF ~verify_password(l.password, l.doc.hashed_password)
    THEN LET update_data == FailedUpdateData(l.doc, now)
         IN /\ loc' = [loc EXCEPT ![p] =
                         [l EXCEPT !.update_data = update_data,
                                   !.verified_at = now]]
            /\ pc' = [pc EXCEPT ![p] =
                        IF update_data.locked_until # NoTime
                        THEN "alert" ELSE "fail_update"]
    ELSE /\ loc' = [loc EXCEPT ![p] = [l EXCEPT !.verified_at = now]]
         /\ pc' = [pc EXCEPT ![p] = "ok_update"]

(* await find_one, then the lock check *)
LoginFind(p, email, password) ==
    /\ pc[p] = "idle"
    /\ LET u == find_by_email(email)
       IN IF u = None
          THEN /\ resp' = ErrorReply("login", NotFoundResponse,
                                  [NoReply EXCEPT !.email = email,
                                                  !.wrong = TRUE])
               /\ UNCHANGED <<now, users, sessions, issued, jti, pc, loc,
                              roleUpdates, streak, deadline, okSince, tz_aware, utc_offset, transacao>>
          ELSE LET doc == users[u]
                   over == StreakOver(u, now) /\ ~CompareRaises(doc)
                   l == [IdleLoc EXCEPT
                            !.password = password, !.doc = doc,
                            !.mustLock = streak[u] >= max_failed_attempts
                                            /\ ~over]
               IN /\ verify_password(password, doc.hashed_password)
                        /\ ~IsLockedNow(doc, now) /\ ~CompareRaises(doc)
                     => jti + 2 * (Cardinality({q \in Procs : WillSign(q)}) + 1)
                            <= MaxJti
                  /\ streak' = IF over THEN [streak EXCEPT ![u] = 0] ELSE streak
                  /\ deadline' = IF over THEN [deadline EXCEPT ![u] = NoTime]
                                 ELSE deadline
                  /\ IF CompareRaises(doc)
                     THEN /\ resp' = ErrorReply("login", InvalidCredentials,
                                            LoginRequest(l))
                          /\ UNCHANGED <<pc, loc>>
                     ELSE IF IsLockedNow(doc, now)
                     THEN /\ resp' = ErrorReply("login", AccountLocked(doc),
                                            LoginRequest(l))
                          /\ UNCHANGED <<pc, loc>>
                     ELSE IF doc.locked_until # NoTime
                     THEN /\ pc' = [pc EXCEPT ![p] = "unlock"]
                          /\ loc' = [loc EXCEPT ![p] = l]
                          /\ UNCHANGED resp
                     ELSE /\ Proceed(p, l)
                          /\ UNCHANGED resp
                  /\ UNCHANGED <<now, users, sessions, issued, jti,
                                 roleUpdates, okSince, tz_aware, utc_offset, transacao>>

(* await update_one: "Desbloqueia conta se o tempo expirou" *)
LoginUnlock(p) ==
    /\ pc[p] = "unlock"
    /\ LET u == loc[p].doc.id
       IN users' = [users EXCEPT ![u] = UnlockUpdate(@)]
    /\ Proceed(p, [loc[p] EXCEPT !.unlocked = TRUE])
    /\ UNCHANGED <<now, sessions, issued, jti, resp, roleUpdates,
                   streak, deadline, okSince, tz_aware, utc_offset, transacao>>

(* history: a wrong-password login of user u was answered 401 *)
StreakFail(u, p) ==
    LET hit == streak[u] = max_failed_attempts - 1
    IN /\ streak' = [streak EXCEPT ![u] =
                        IF @ < max_failed_attempts THEN @ + 1 ELSE @]
       /\ deadline' = IF hit
                      THEN [deadline EXCEPT ![u] =
                              loc[p].verified_at + lockout_duration_minutes]
                      ELSE deadline
       /\ okSince' = IF hit THEN [okSince EXCEPT ![u] = FALSE] ELSE okSince

(* await send_alert(...) returned *)
LoginAlertSent(p) ==
    /\ pc[p] = "alert"
    /\ pc' = [pc EXCEPT ![p] = "fail_update"]
    /\ UNCHANGED <<now, users, sessions, issued, jti, loc, resp, roleUpdates,
                   streak, deadline, okSince, tz_aware, utc_offset, transacao>>

(* await send_alert(...) raised: "except Exception" logs and returns None, *)
(* so login answers 401 and the update_one below it is never reached       *)
LoginAlertFailed(p) ==
    /\ pc[p] = "alert"
    /\ pc' = [pc EXCEPT ![p] = "idle"]
    /\ loc' = [loc EXCEPT ![p] = IdleLoc]
    /\ resp' = ErrorReply("login", InvalidCredentials,
                          LoginRequest(loc[p]))
    /\ StreakFail(loc[p].doc.id, p)
    /\ UNCHANGED <<now, users, sessions, issued, jti, roleUpdates, tz_aware, utc_offset, transacao>>

(* await update_one({"$set": update_data}), then return None *)
LoginFailUpdate(p) ==
    /\ pc[p] = "fail_update"
    /\ LET u == loc[p].doc.id
       IN /\ users' = [users EXCEPT ![u] =
                          ApplyFailedUpdate(@, loc[p].update_data)]
          /\ StreakFail(u, p)
    /\ pc' = [pc EXCEPT ![p] = "idle"]
    /\ loc' = [loc EXCEPT ![p] = IdleLoc]
    /\ resp' = ErrorReply("login", InvalidCredentials,
                          LoginRequest(loc[p]))
    /\ UNCHANGED <<now, sessions, issued, jti, roleUpdates, tz_aware, utc_offset, transacao>>

(* login: token_data of the tokens it signs, from the UserInDB that        *)
(* authenticate_user built out of the document find_one returned           *)
LoginTokenData(doc) ==
    [sub |-> doc.id, email |-> doc.email, role |-> doc.role,
     permissions |-> doc.permissions]

(* await update_one of the successful verification; authenticate_user      *)
(* returns the user; login checks the status and signs the two tokens      *)
LoginOkUpdate(p) ==
    /\ pc[p] = "ok_update"
    /\ LET doc == loc[p].doc
           u == doc.id
       IN /\ users' = [users EXCEPT ![u] = SuccessUpdate(@, now)]
          /\ streak' = [streak EXCEPT ![u] = 0]
          /\ deadline' = [deadline EXCEPT ![u] = NoTime]
          /\ okSince' = [okSince EXCEPT ![u] = TRUE]
          /\ IF doc.status # "active"
             THEN /\ resp' = ErrorReply("login", AccountInactive(doc),
                                        LoginRequest(loc[p]))
                  /\ pc' = [pc EXCEPT ![p] = "idle"]
                  /\ loc' = [loc EXCEPT ![p] = IdleLoc]
                  /\ UNCHANGED <<issued, jti>>
             ELSE LET access == create_access_token(LoginTokenData(doc), now, jti)
                      refresh == create_refresh_token(doc.id, now, jti + 1)
                  IN /\ issued' = issued \cup {access, refresh}
                     /\ jti' = jti + 2
                     /\ loc' = [loc EXCEPT ![p].access_token = access,
                                           ![p].refresh_token = refresh]
                     /\ pc' = [pc EXCEPT ![p] = "session"]
                     /\ UNCHANGED resp
    /\ UNCHANGED <<now, sessions, roleUpdates, tz_aware, utc_offset, transacao>>

(* AuthService.create_session: the session document *)
NewSession(user_id, t) ==
    [id |-> Cardinality(sessions) + 1, user_id |-> user_id,
     is_active |-> TRUE, created_at |-> t,
     expires_at |-> t + session_timeout_hours * 60, logout_at |-> NoTime]

(* await create_session(...), then login returns the Token *)
LoginSession(p) ==
    /\ pc[p] = "session"
    /\ sessions' = sessions \cup {NewSession(loc[p].doc.id, now)}
    /\ resp' = TokenReply("login", loc[p].access_token, loc[p].refresh_token,
                          loc[p].doc.id, loc[p].doc.role,
                          LoginRequest(loc[p]))
    /\ pc' = [pc EXCEPT ![p] = "idle"]
    /\ loc' = [loc EXCEPT ![p] = IdleLoc]
    /\ UNCHANGED <<now, users, issued, jti, roleUpdates,
                   streak, deadline, okSince, tz_aware, utc_offset, transacao>>

----------------------------------------------------------------------------
(* Token verification *)

(* JWTManager.verify_token(token, expected_type): "ok" or the error kind *)
verify_token(token, expected_type, t) ==
    IF token.sig # "good" THEN "TokenInvalid"
    ELSE IF t > token.exp THEN "TokenExpired"
    ELSE IF token.token_type # expected_type THEN "TokenTypeMismatch"
    ELSE "ok"

(* verify_jwt_token(token) of app/security/auth.py returns a TokenData:    *)
(* jwt.decode checks the signature and the expiry (a token is expired from *)
(* exp on); the code then compares utcnow() with fromtimestamp(exp), which *)
(* is exp in the server's local time; and TokenData needs the              *)
(* payload keys user_id, username, email, role and jti (a KeyError or a    *)
(* validation error is caught and gives None).  token_type is not looked   *)
(* at.                                                                     *)
verify_jwt_token(token, t) ==
    /\ token.sig = "good"
    /\ t < token.exp
    /\ ~(t > token.exp + utc_offset)
    /\ token.idkey = "user_id"
    /\ token.email # None
    /\ token.role # None

(* what a client can present as a bearer or refresh token *)
Presentable ==
    issued \cup {[tok EXCEPT !.sig = "bad"] : tok \in issued} \cup {Garbage}

----------------------------------------------------------------------------
(* AuthService.refresh_token, app/services/auth_service.py *)

(* variant: the claims are copied from the refresh token *)
RefreshTokenDataStale(token, user_doc) ==
    [sub |-> token.sub, email |-> token.email, role |-> token.role,
     permissions |-> token.permissions]

(* new_token_data: the claims of the access token that refresh signs *)
RefreshTokenData(token, user_doc) ==
    [sub |-> token.sub, email |-> user_doc.email, role |-> user_doc.role,
     permissions |-> user_doc.permissions]

(* variant: the refresh token is rotated *)
RefreshReturnedRotated(refresh_token) ==
    [refresh_token EXCEPT !.jti = jti + 1, !.iat = now,
                          !.exp = now + RefreshTtl]

(* the refresh token that the returned Token carries *)
RefreshReturned(refresh_token) == refresh_token

(* "if not user_doc or user_doc["status"] != ACTIVE: raise 401" *)
UserInactive == Response(401, "Usuario inativo", NoTime)

(* "except Exception as e": whatever was raised inside the try, the        *)
(* HTTPException above included, leaves as this one                        *)
RefreshExcept(raised) == Response(401, "Token de refresh invalido", NoTime)

RefreshRequest(token) == [NoReply EXCEPT !.presented = token]

Refresh(token) ==
    /\ LET v == verify_token(token, "refresh", now)
           req == RefreshRequest(token)
       IN IF v # "ok"
          THEN /\ resp' = ErrorReply("refresh",
                              RefreshExcept(Response(401, v, NoTime)), req)
               /\ UNCHANGED <<issued, jti>>
          ELSE IF token.idkey # "sub"
                    \/ token.sub \notin DOMAIN users
                    \/ users[token.sub].status # "active"
          THEN /\ resp' = ErrorReply("refresh", RefreshExcept(UserInactive), req)
               /\ UNCHANGED <<issued, jti>>
          ELSE LET user_doc == users[token.sub]
                   access == create_access_token(
                                 RefreshTokenData(token, user_doc), now, jti)
               IN /\ jti + 1 + 2 * Cardinality({q \in Procs : WillSign(q)})
                        <= MaxJti
                  /\ issued' = issued \cup {access}
                  /\ jti' = jti + 1
                  /\ resp' = TokenReply("refresh", access,
                                        RefreshReturned(token), token.sub,
                                        user_doc.role, req)
    /\ UNCHANGED <<now, users, sessions, pc, loc, roleUpdates,
                   streak, deadline, okSince, tz_aware, utc_offset, transacao>>

----------------------------------------------------------------------------
(* AuthService.logout and AuthService.update_user_role *)

(* variant: the filter on user_id is forgotten *)
LogoutEverySession(user_id) ==
    /\ sessions' = {[s EXCEPT !.is_active = FALSE, !.logout_at = now] :
                       s \in sessions}
    /\ resp' = [NoReply EXCEPT !.op = "logout", !.status = 200,
                               !.user_id = user_id]
    /\ UNCHANGED <<now, users, issued, jti, pc, loc, roleUpdates,
                   streak, deadline, okSince, tz_aware, utc_offset, transacao>>

Logout(user_id) ==
    /\ sessions' = {IF s.user_id = user_id
                    THEN [s EXCEPT !.is_active = FALSE, !.logout_at = now]
                    ELSE s : s \in sessions}
    /\ resp' = [NoReply EXCEPT !.op = "logout", !.status = 200,
                               !.user_id = user_id]
    /\ UNCHANGED <<now, users, issued, jti, pc, loc, roleUpdates,
                   streak, deadline, okSince, tz_aware, utc_offset, transacao>>

RoleInputs == {"manager", "superuser"}

(* variant: the permissions of the old role are left in the document *)
UpdateUserRoleKeepsPermissions(user_id, new_role) ==
    /\ roleUpdates < MaxRoleUpdates
    /\ roleUpdates' = roleUpdates + 1
    /\ IF IsRole(new_role) /\ user_id \in DOMAIN users
       THEN /\ users' = [users EXCEPT ![user_id] = [@ EXCEPT !.role = new_role]]
            /\ resp' = [NoReply EXCEPT !.op = "update_role", !.status = 200,
                                       !.user_id = user_id, !.role = new_role]
       ELSE /\ UNCHANGED users
            /\ resp' = [NoReply EXCEPT !.op = "update_role", !.status = 400,
                                       !.user_id = user_id, !.role = new_role]
    /\ UNCHANGED <<now, sessions, issued, jti, pc, loc,
                   streak, deadline, okSince, tz_aware, utc_offset, transacao>>

UpdateUserRole(user_id, new_role) ==
    /\ roleUpdates < MaxRoleUpdates
    /\ roleUpdates' = roleUpdates + 1
    /\ IF IsRole(new_role) /\ user_id \in DOMAIN users
       THEN /\ users' = [users EXCEPT ![user_id] =
                            [@ EXCEPT !.role = new_role,
                                      !.permissions = get_permissions(new_role)]]
            /\ resp' = [NoReply EXCEPT !.op = "update_role", !.status = 200,
                                       !.user_id = user_id, !.role = new_role]
       ELSE /\ UNCHANGED users
            /\ resp' = [NoReply EXCEPT !.op = "update_role", !.status = 400,
                                       !.user_id = user_id, !.role = new_role]
    /\ UNCHANGED <<now, sessions, issued, jti, pc, loc,
                   streak, deadline, okSince, tz_aware, utc_offset, transacao>>

----------------------------------------------------------------------------
(* AuthService.change_password and the route /change-password *)

CurrentPasswords == Passwords \cup {"NewPass1!"}
NewPasswords == {"NewPass1!", "weak"}

(* password changes one user goes through *)
MaxPwChanges == 2

(* the route: "if not success: raise 400" *)
PasswordIncorrect == Response(400, "Senha atual incorreta", NoTime)

(* change_password: "if not is_strong: raise 400" with the errors *)
WeakNewPassword == Response(400, "Nova senha nao atende aos criterios", NoTime)

(* variant: the current password is not asked for *)
PasswordChecksNoCurrent(user_doc, current_password, new_password) ==
    IF user_doc = NoDoc THEN "incorrect"
    ELSE IF validate_password_strength(new_password) # {} THEN "weak"
    ELSE "ok"

(* change_password from find_one to update_one: the user is there, the     *)
(* current password verifies, the new one is strong                        *)
PasswordChecks(user_doc, current_password, new_password) ==
    IF user_doc = NoDoc THEN "incorrect"
    ELSE IF ~verify_password(current_password, user_doc.hashed_password)
    THEN "incorrect"
    ELSE IF validate_password_strength(new_password) # {} THEN "weak"
    ELSE "ok"

PasswordRequest(user_id, user_doc, current_password, new_password) ==
    [NoReply EXCEPT
        !.user_id = user_id,
        !.wrong = ~verify_password(current_password, user_doc.hashed_password),
        !.new_password = new_password]

(* await find_one, then the two checks *)
ChangePasswordFind(p, user_id, current_password, new_password) ==
    /\ pc[p] = "idle"
    /\ LET user_doc == IF user_id \in DOMAIN users THEN users[user_id] ELSE NoDoc
           checks == PasswordChecks(user_doc, current_password, new_password)
           req == PasswordRequest(user_id, user_doc, current_password,
                                  new_password)
       IN /\ user_doc.hashed_password.salt <= MaxPwChanges
          /\ IF checks = "incorrect"
             THEN /\ resp' = ErrorReply("change_password", PasswordIncorrect, req)
                  /\ UNCHANGED <<pc, loc>>
             ELSE IF checks = "weak"
             THEN /\ resp' = [ErrorReply("change_password", WeakNewPassword, req)
                                EXCEPT !.errors =
                                    validate_password_strength(new_password)]
                  /\ UNCHANGED <<pc, loc>>
             ELSE /\ pc' = [pc EXCEPT ![p] = "pw_update"]
                  /\ loc' = [loc EXCEPT ![p] =
                                [IdleLoc EXCEPT !.password = current_password,
                                                !.doc = user_doc,
                                                !.new_password = new_password]]
                  /\ UNCHANGED resp
    /\ UNCHANGED <<now, users, sessions, issued, jti, roleUpdates,
                   streak, deadline, okSince, tz_aware, utc_offset, transacao>>

(* await update_one({"$set": {"hashed_password": new_hash, ...}}): the new *)
(* hash has a salt of its own; modified_count > 0, the route answers 200   *)
ChangePasswordUpdate(p) ==
    /\ pc[p] = "pw_update"
    /\ LET u == loc[p].doc.id
       IN /\ users' = [users EXCEPT ![u].hashed_password =
                          hash_password(loc[p].new_password, @.salt + 1)]
          /\ resp' = [PasswordRequest(u, loc[p].doc, loc[p].password,
                                      loc[p].new_password)
                         EXCEPT !.op = "change_password", !.status = 200]
    /\ pc' = [pc EXCEPT ![p] = "idle"]
    /\ loc' = [loc EXCEPT ![p] = IdleLoc]
    /\ UNCHANGED <<now, sessions, issued, jti, roleUpdates,
                   streak, deadline, okSince, tz_aware, utc_offset, transacao>>

----------------------------------------------------------------------------
(* AuthService.create_user *)

(* ObjectId(): the ids that new users get *)
NewUserIds == {"u3", "u4"}

RegisterEmails == {"new@example.com", "Bob@Example.com"}
RegisterRoles == {"operator", "superuser"}

(* "if not is_strong: raise 400" with the errors *)
WeakPassword == Response(400, "Senha nao atende aos criterios de seguranca", NoTime)

(* "except ValueError: raise 400" *)
InvalidRole == Response(400, "Role invalido", NoTime)

(* "except DuplicateKeyError: raise 400" *)
DuplicateEmail == Response(400, "Email ja esta em uso", NoTime)

(* "except Exception: raise 500" *)
InternalError == Response(500, "Erro interno do servidor", NoTime)

(* what the body of the try block raises before it inserts, or None *)
CreateUserRaises(user_data) ==
    IF validate_password_strength(user_data.password) # {}
    THEN "HTTPException(WeakPassword)"
    ELSE IF ~IsRole(user_data.role) THEN "HTTPException(InvalidRole)"
    ELSE None

(* the two except clauses of create_user: DuplicateKeyError is answered    *)
(* 400, every other exception 500, the HTTPException raised inside the     *)
(* try block among them, which no clause re-raises                         *)
CreateUserExcept(raised) ==
    IF raised = "DuplicateKeyError" THEN DuplicateEmail ELSE InternalError

RegisterRequest(user_data) ==
    [NoReply EXCEPT !.email = user_data.email, !.role = user_data.role,
                    !.new_password = user_data.password]

(* create_user up to "await insert_one": the checks, then the insert.  The *)
(* source creates no unique index on users.email, so an address in use is  *)
(* either refused by an index made elsewhere or stored a second time.      *)
RegisterInsert(p, user_data) ==
    /\ pc[p] = "idle"
    /\ LET raised == CreateUserRaises(user_data)
           req == RegisterRequest(user_data)
       IN IF raised # None
          THEN /\ resp' = ErrorReply("register", CreateUserExcept(raised), req)
               /\ UNCHANGED <<users, pc, loc>>
          ELSE \/ /\ find_by_email(user_data.email) # None
                  /\ resp' = ErrorReply("register",
                                        CreateUserExcept("DuplicateKeyError"),
                                        req)
                  /\ UNCHANGED <<users, pc, loc>>
               \/ /\ NewUserIds \ DOMAIN users # {}
                  /\ LET id == CHOOSE i \in NewUserIds \ DOMAIN users : TRUE
                         doc == NewUser(id, user_data.email, user_data.password,
                                        user_data.role, "active")
                     IN /\ users' = [u \in DOMAIN users \cup {id} |->
                                        IF u = id THEN doc ELSE users[u]]
                        /\ loc' = [loc EXCEPT ![p] =
                                      [IdleLoc EXCEPT
                                          !.doc = doc,
                                          !.password = user_data.password]]
                  /\ pc' = [pc EXCEPT ![p] = "reg_alert"]
                  /\ UNCHANGED resp
    /\ UNCHANGED <<now, sessions, issued, jti, roleUpdates,
                   streak, deadline, okSince, tz_aware, utc_offset, transacao>>

RegisteredRequest(l) ==
    [NoReply EXCEPT !.email = l.doc.email, !.role = l.doc.role,
                    !.new_password = l.password, !.user_id = l.doc.id]

(* await send_alert(...) returned: create_user returns the document *)
RegisterAlertSent(p) ==
    /\ pc[p] = "reg_alert"
    /\ resp' = [RegisteredRequest(loc[p]) EXCEPT !.op = "register",
                                                 !.status = 200]
    /\ pc' = [pc EXCEPT ![p] = "idle"]
    /\ loc' = [loc EXCEPT ![p] = IdleLoc]
    /\ UNCHANGED <<now, users, sessions, issued, jti, roleUpdates,
                   streak, deadline, okSince, tz_aware, utc_offset, transacao>>

(* await send_alert(...) raised: "except Exception" answers 500, the user  *)
(* stays inserted                                                          *)
RegisterAlertFailed(p) ==
    /\ pc[p] = "reg_alert"
    /\ resp' = ErrorReply("register", CreateUserExcept("AlertError"),
                          RegisteredRequest(loc[p]))
    /\ pc' = [pc EXCEPT ![p] = "idle"]
    /\ loc' = [loc EXCEPT ![p] = IdleLoc]
    /\ UNCHANGED <<now, users, sessions, issued, jti, roleUpdates,
                   streak, deadline, okSince, tz_aware, utc_offset, transacao>>

----------------------------------------------------------------------------
(* The static AuthService of app/security/auth.py *)

LegacyUsernames == {"admin", "bob"}
LegacyPasswords == {"admin123", "bad"}

(* authenticate_user(username, password): the built-in admin or None *)
legacy_authenticate_user(username, password) ==
    IF username = "admin" /\ password = "admin123"
    THEN [id |-> "1", email |-> "admin@monitordb.com", role |-> "admin",
          permissions |-> ROLE_PERMISSIONS["admin"]]
    ELSE [id |-> None, email |-> None, role |-> None, permissions |-> {}]

LegacyLogin(username, password) ==
    LET user == legacy_authenticate_user(username, password)
        req == [NoReply EXCEPT !.email = username]
    IN /\ IF user.id = None
          THEN /\ resp' = ErrorReply("legacy_login",
                              Response(401, "Credenciais invalidas", NoTime), req)
               /\ UNCHANGED <<issued, jti>>
          ELSE LET access == generate_jwt_token(user, "access", now, jti)
                   refresh == generate_jwt_token(user, "refresh", now, jti + 1)
               IN /\ jti + 2 + 2 * Cardinality({q \in Procs : WillSign(q)})
                        <= MaxJti
                  /\ issued' = issued \cup {access, refresh}
                  /\ jti' = jti + 2
                  /\ resp' = TokenReply("legacy_login", access, refresh,
                                        user.id, user.role, req)
       /\ UNCHANGED <<now, users, sessions, pc, loc, roleUpdates,
                      streak, deadline, okSince, tz_aware, utc_offset, transacao>>

(* refresh_token(refresh_token): TokenData has no token_type field, so the *)
(* type test raises AttributeError for every token that verifies           *)
LegacyRefresh(token) ==
    /\ resp' = ErrorReply("legacy_refresh",
                   IF verify_jwt_token(token, now)
                   THEN Response(500, "AttributeError", NoTime)
                   ELSE Response(401, "Refresh token invalido", NoTime),
                   RefreshRequest(token))
    /\ UNCHANGED <<now, users, sessions, issued, jti, pc, loc, roleUpdates,
                   streak, deadline, okSince, tz_aware, utc_offset, transacao>>

----------------------------------------------------------------------------
(* The permission gate, app/security/auth.py *)

(* variant: the gate also asks for a session of the token's user that has *)
(* not been logged out, whatever key the payload keeps the user id under   *)
get_current_user_with_session(token, t) ==
    /\ token.sig = "good"
    /\ t < token.exp
    /\ \E s \in sessions : s.user_id = token.sub /\ s.is_active

(* get_current_user: the bearer token verifies *)
get_current_user(token, t) == verify_jwt_token(token, t)

Unauthorized == Response(401, "Token invalido ou expirado", NoTime)

(* variant: the override of the top role is left out *)
permission_checker_no_override(current_user, permission) ==
    permission \in current_user.permissions

(* require_permission(permission): permission_checker lets the user in *)
permission_checker(current_user, permission) ==
    ~(permission \notin current_user.permissions /\ current_user.role # "admin")

(* ROLE_HIERARCHY.get(role, default) *)
hierarchy_get(role, default) ==
    IF role \in DOMAIN ROLE_HIERARCHY THEN ROLE_HIERARCHY[role] ELSE default

(* has_role_level(user_role, required_role) of app/security/roles.py *)
has_role_level(user_role, required_role) ==
    LET user_level == hierarchy_get(Lower(user_role), 0)
        required_level == hierarchy_get(Lower(required_role), 999)
    IN user_level >= required_level

(* variant: a role of the required level itself is turned away *)
role_checker_strict(current_user, required_role) ==
    ~(hierarchy_get(current_user.role, 0) <= hierarchy_get(required_role, 999))

(* require_role(required_role): role_checker lets the user in *)
role_checker(current_user, required_role) ==
    ~(hierarchy_get(current_user.role, 0) < hierarchy_get(required_role, 999))

GatePermissions == {"log:create", "admin:users"}
GateRoles == {"manager", "superuser"}

(* what a route asks of the gate: a bare get_current_user, a permission     *)
(* or a minimum role                                                       *)
Requirements ==
    {<<"user", None>>}
        \cup {<<"permission", q>> : q \in GatePermissions}
        \cup {<<"role", r>> : r \in GateRoles}

(* what the dependency answers to the bearer token at this moment *)
GateReply(token, requirement) ==
    LET req == [NoReply EXCEPT !.presented = token, !.required = requirement[2]]
        op == requirement[1]
    IN IF ~get_current_user(token, now)
       THEN ErrorReply("gate_" \o op, Unauthorized, req)
       ELSE IF op = "permission" /\ ~permission_checker(token, requirement[2])
       THEN ErrorReply("gate_" \o op,
                       Response(403, "Permissao requerida", NoTime), req)
       ELSE IF op = "role" /\ ~role_checker(token, requirement[2])
       THEN ErrorReply("gate_" \o op,
                       Response(403, "Role minimo requerido", NoTime), req)
       ELSE [req EXCEPT !.op = "gate_" \o op, !.status = 200,
                        !.user_id = token.sub, !.role = token.role]

Gate(token, requirement) ==
    /\ resp' = GateReply(token, requirement)
    /\ UNCHANGED <<now, users, sessions, issued, jti, pc, loc, roleUpdates,
                      streak, deadline, okSince, tz_aware, utc_offset, transacao>>

----------------------------------------------------------------------------
(* BankingSimulator, app/integrations/banking_integration.py *)

limite_diario == 5000
limite_noturno == 1000
LimiteMaximo == 50000

TiposTransacao == {"pix", "ted", "deposito"}
Valores == {0, 500, 1001, 5001, 50001}
ChavesPix == {None, "chave", "user@example.com"}
Contas == {None, "0002"}
Horas == {5, 6, 7, 19, 20}

(* BankingTransaction.__init__; agora is the hour _processar_pix read *)
BankingTransaction(tipo, valor, destino_conta, chave_pix) ==
    [tipo |-> tipo, valor |-> valor, destino_conta |-> destino_conta,
     chave_pix |-> chave_pix, status |-> "pendente", error_message |-> None,
     fee |-> 0, processamento |-> None, agora |-> 0]

NoTransacao == BankingTransaction(None, 0, None, None)

(* PixValidator.validar_email: the pattern name@domain.tld *)
validar_email(email) == email \in {"user@example.com"}

(* PixValidator.validar_chave_pix without a tipo: "chave" has no digits    *)
(* and is neither a CPF, a CNPJ, an e-mail, a telephone nor a UUID         *)
validar_chave_pix(chave) == chave # None /\ validar_email(chave)

(* _validar_transacao: the error_message, None when the transaction passes *)
validar_transacao(t) ==
    IF t.valor <= 0 THEN "Valor deve ser positivo"
    ELSE IF t.valor > LimiteMaximo THEN "Valor excede limite maximo permitido"
    ELSE IF t.tipo = "pix" /\ t.chave_pix = None THEN "Chave PIX e obrigatoria"
    ELSE IF t.tipo = "pix" /\ ~validar_chave_pix(t.chave_pix)
    THEN "Chave PIX invalida"
    ELSE IF t.tipo \in {"ted", "doc", "transferencia"} /\ t.destino_conta = None
    THEN "Conta de destino e obrigatoria"
    ELSE None

(* _processar_pix: "limite_noturno if agora.hour >= 20 or agora.hour <= 6" *)
LimitePix(hour) ==
    IF hour >= 20 \/ hour <= 6 THEN limite_noturno ELSE limite_diario

(* f"Valor excede limite PIX de R$ {limite:.2f}" *)
LimiteMessage(limite) ==
    IF limite = limite_noturno THEN "Valor excede limite PIX de R$ 1000.00"
    ELSE "Valor excede limite PIX de R$ 5000.00"

(* _processar_pix: the transaction as it leaves it; what it returns is     *)
(* read by no caller                                                       *)
processar_pix(t, hour) ==
    IF t.valor > LimitePix(hour)
    THEN [t EXCEPT !.error_message = LimiteMessage(LimitePix(hour)),
                   !.agora = hour]
    ELSE [t EXCEPT !.fee = 0, !.processamento = "instantaneo", !.agora = hour]

processar_transferencia_tradicional(t) ==
    IF t.tipo = "ted"
    THEN [t EXCEPT !.fee = 15, !.processamento = "mesmo_dia"]
    ELSE [t EXCEPT !.fee = 10, !.processamento = "proximo_dia_util"]

processar_operacao_simples(t) ==
    [t EXCEPT !.fee = 0, !.processamento = "imediato"]

(* processar_transacao: falha is "random.random() < 0.05" *)
processar_transacao(t, hour, falha) ==
    LET error == validar_transacao(t)
        done == IF t.tipo = "pix" THEN processar_pix(t, hour)
                ELSE IF t.tipo \in {"ted", "doc"}
                THEN processar_transferencia_tradicional(t)
                ELSE processar_operacao_simples(t)
    IN IF error # None
       THEN [t EXCEPT !.status = "rejeitada", !.error_message = error]
       ELSE IF falha
       THEN [done EXCEPT !.status = "rejeitada",
                         !.error_message =
                            "Falha na comunicacao com o sistema bancario"]
       ELSE [done EXCEPT !.status = "aprovada"]

ProcessarTransacao(t, hour, falha) ==
    /\ transacao' = processar_transacao(t, hour, falha)
    /\ UNCHANGED <<now, users, sessions, issued, jti, pc, loc, resp,
                   roleUpdates, streak, deadline, okSince, tz_aware, utc_offset>>

----------------------------------------------------------------------------
(* The clock *)

Tick(d) ==
    /\ now <= MaxTime
    /\ now + d <= MaxTime \/ d = RefreshTtl
    /\ now' = now + d
    /\ resp' = NoReply
    /\ UNCHANGED <<users, sessions, issued, jti, pc, loc, roleUpdates,
                   streak, deadline, okSince, tz_aware, utc_offset, transacao>>

----------------------------------------------------------------------------
(* Initial states: bob is registered, active or deactivated; eve has been  *)
(* removed from the store.  The refresh tokens signed for them at earlier  *)
(* logins are still around.                                                *)

Bob(status) == NewUser("u1", "Bob@Example.com", "good", "operator", status)

OldTokens == {create_refresh_token("u1", 0, 0), create_refresh_token("u2", 0, 1)}

(* the session that the login which signed u1's old token created *)
OldSession ==
    [id |-> 1, user_id |-> "u1", is_active |-> TRUE, created_at |-> 0,
     expires_at |-> session_timeout_hours * 60, logout_at |-> NoTime]

Init ==
    /\ now = 0
    /\ \E st \in {"active", "inactive"} : users = [u \in {"u1"} |-> Bob(st)]
    /\ sessions = {OldSession}
    /\ issued = OldTokens
    /\ jti = 2
    /\ pc = [p \in Procs |-> "idle"]
    /\ loc = [p \in Procs |-> IdleLoc]
    /\ resp = NoReply
    /\ roleUpdates = 0
    /\ streak = [u \in UserIds |-> 0]
    /\ deadline = [u \in UserIds |-> NoTime]
    /\ okSince = [u \in UserIds |-> FALSE]
    /\ tz_aware \in BOOLEAN
    /\ utc_offset \in UtcOffsets
    /\ transacao = NoTransacao

(* the steps of a login request *)
LoginStep(p) ==
    \/ \E e \in LoginEmails, pw \in Passwords : LoginFind(p, e, pw)
    \/ LoginUnlock(p)
    \/ LoginAlertSent(p)
    \/ LoginAlertFailed(p)
    \/ LoginFailUpdate(p)
    \/ LoginOkUpdate(p)
    \/ LoginSession(p)

(* Logins served concurrently, their awaits interleaving *)
NextLogin ==
    \/ \E p \in Procs : LoginStep(p)
    \/ \E d \in TickSteps : Tick(d)

(* no step of a login verifies a token: one time zone is enough *)
InitLogin == Init /\ utc_offset = 0

SpecLogin == InitLogin /\ [][NextLogin]_vars

(* Logins served one at a time: none starts while another is suspended *)
Alone(p) == \A q \in Procs \ {p} : pc[q] = "idle"

NextSeq ==
    \/ \E p \in Procs, e \in LoginEmails, pw \in Passwords :
           Alone(p) /\ LoginFind(p, e, pw)
    \/ \E p \in Procs : LoginUnlock(p)
    \/ \E p \in Procs : LoginAlertSent(p)
    \/ \E p \in Procs : LoginAlertFailed(p)
    \/ \E p \in Procs : LoginFailUpdate(p)
    \/ \E p \in Procs : LoginOkUpdate(p)
    \/ \E p \in Procs : LoginSession(p)
    \/ \E d \in TickSteps : Tick(d)

SpecSeq == InitLogin /\ [][NextSeq]_vars

(* The life of tokens: logins with the right password, refreshes, role     *)
(* changes, logouts, and the gate                                          *)
NextToken ==
    \/ \E token \in Presentable : Refresh(token)
    \/ \E u \in UserIds, r \in RoleInputs : UpdateUserRole(u, r)
    \/ \E n \in LegacyUsernames, pw \in LegacyPasswords : LegacyLogin(n, pw)
    \/ \E token \in Presentable : LegacyRefresh(token)
    \/ \E token \in Presentable, rq \in Requirements : Gate(token, rq)
    \/ \E d \in TickSteps \cup {RefreshTtl} : Tick(d)

(* no token operation compares a stored datetime: one store is enough;    *)
(* the time zone of the server is left to the tokens signed on request     *)
InitToken == InitLogin /\ tz_aware

SpecToken == InitToken /\ [][NextToken]_vars

(* The gate among the operations that change what the store holds of a    *)
(* user: bob's failed logins up to the lockout, changes of his role, his   *)
(* logouts; the built-in admin signs in and tokens are shown to the gate.  *)
(* The clock runs up to the expiry of a token signed at the start.         *)
NextGate ==
    \/ Alone("p1") /\ LoginFind("p1", "bob@example.com", "bad")
    \/ \E p \in Procs : LoginAlertSent(p)
    \/ \E p \in Procs : LoginAlertFailed(p)
    \/ \E p \in Procs : LoginFailUpdate(p)
    \/ \E r \in RoleInputs : UpdateUserRole("u1", r)
    \/ Logout("u1")
    \/ \E n \in LegacyUsernames, pw \in LegacyPasswords : LegacyLogin(n, pw)
    \/ \E token \in issued, rq \in Requirements : Gate(token, rq)
    \/ \E d \in TickSteps : now < AccessTtl /\ Tick(d)

(* bob is active and stays so, no operation of the service changes the     *)
(* status of a user; the store hands datetimes back naive, as the client   *)
(* of app/database/mongo_client.py does                                    *)
InitGate == InitLogin /\ ~tz_aware /\ users["u1"].status = "active"

SpecGate == InitGate /\ [][NextGate]_vars

----------------------------------------------------------------------------
(* The functions of app/security/auth.py and app/security/roles.py called  *)
(* on their own                                                            *)

(* user_data of generate_jwt_token: the top role and a lower one, with the *)
(* permissions of an operator or with none                                 *)
ClaimsInputs ==
    {[id |-> "u1", email |-> "bob@example.com", role |-> r, permissions |-> ps] :
        r \in {"admin", "manager"},
        ps \in {ROLE_PERMISSIONS["operator"], {}}}

TokenTypes == {"access", "refresh"}

(* tokens signed on request in one run *)
MaxSigned == 1

(* token = generate_jwt_token(user_data, token_type) *)
IssueToken(user_data, token_type) ==
    LET token == generate_jwt_token(user_data, token_type, now, jti)
    IN /\ Cardinality(issued \ OldTokens) < MaxSigned
       /\ issued' = issued \cup {token}
       /\ jti' = jti + 1
       /\ resp' = [NoReply EXCEPT !.op = "issue", !.status = 200,
                                  !.access_token = token]
       /\ UNCHANGED <<now, users, sessions, pc, loc, roleUpdates,
                      streak, deadline, okSince, tz_aware, utc_offset, transacao>>

(* verify_jwt_token(token): the TokenData, or None *)
VerifyJwt(token) ==
    /\ resp' = IF verify_jwt_token(token, now)
               THEN [NoReply EXCEPT !.op = "verify", !.status = 200,
                                    !.presented = token,
                                    !.decoded = TokenData(token)]
               ELSE [NoReply EXCEPT !.op = "verify", !.status = 401,
                                    !.presented = token]
    /\ UNCHANGED <<now, users, sessions, issued, jti, pc, loc, roleUpdates,
                   streak, deadline, okSince, tz_aware, utc_offset, transacao>>

(* role names as a caller may write them *)
RoleStrings == Role \cup {"ADMIN", "superuser"}

(* the enumeration and the permission routes_auth.py asks for that is not  *)
(* in it                                                                   *)
PermissionStrings == Permission \cup {"user:create"}

(* has_permission(user_role, required_permission) *)
HasPermission(user_role, required_permission) ==
    /\ resp' = [NoReply EXCEPT
                  !.op = "has_permission", !.role = user_role,
                  !.required = required_permission,
                  !.result = has_permission(user_role, required_permission)]
    /\ UNCHANGED <<now, users, sessions, issued, jti, pc, loc, roleUpdates,
                   streak, deadline, okSince, tz_aware, utc_offset, transacao>>

(* has_role_level(user_role, required_role) *)
HasRoleLevel(user_role, required_role) ==
    /\ resp' = [NoReply EXCEPT
                  !.op = "has_role_level", !.role = user_role,
                  !.required = required_role,
                  !.result = has_role_level(user_role, required_role)]
    /\ UNCHANGED <<now, users, sessions, issued, jti, pc, loc, roleUpdates,
                   streak, deadline, okSince, tz_aware, utc_offset, transacao>>

(* Tokens signed for any claims, verified and shown to the gate *)
NextClaims ==
    \/ \E user_data \in ClaimsInputs, type \in TokenTypes :
           IssueToken(user_data, type)
    \/ \E token \in Presentable : VerifyJwt(token)
    \/ \E token \in Presentable, rq \in Requirements : Gate(token, rq)
    \/ \E d \in TickSteps : Tick(d)

InitClaims == Init /\ tz_aware /\ users["u1"].status = "active"

SpecClaims == InitClaims /\ [][NextClaims]_vars

(* The role registry *)
NextRoles ==
    \/ \E r \in RoleStrings, q \in PermissionStrings : HasPermission(r, q)
    \/ \E a \in RoleStrings, b \in RoleStrings : HasRoleLevel(a, b)

SpecRoles == InitClaims /\ [][NextRoles]_vars

(* The levels of the registry and the gate that asks for a role *)
NextLevels ==
    \/ \E a \in RoleStrings, b \in RoleStrings : HasRoleLevel(a, b)
    \/ \E user_data \in ClaimsInputs, type \in TokenTypes :
           IssueToken(user_data, type)
    \/ \E token \in Presentable, rq \in Requirements : Gate(token, rq)

SpecLevels == InitClaims /\ [][NextLevels]_vars

(* Accounts: users are created and change their passwords *)
NextAccount ==
    \/ \E p \in Procs, u \in UserIds, c \in CurrentPasswords, n \in NewPasswords :
           ChangePasswordFind(p, u, c, n)
    \/ \E p \in Procs : ChangePasswordUpdate(p)
    \/ \E p \in Procs, e \in RegisterEmails, pw \in NewPasswords,
            r \in RegisterRoles :
           RegisterInsert(p, [email |-> e, password |-> pw, role |-> r])
    \/ \E p \in Procs : RegisterAlertSent(p)
    \/ \E p \in Procs : RegisterAlertFailed(p)

SpecAccount == InitClaims /\ [][NextAccount]_vars

(* Logouts among logins that open sessions.  The login that signed the old *)
(* token of u2 opened a session too; u3 never logged in.                   *)
OtherSession ==
    [id |-> 2, user_id |-> "u2", is_active |-> TRUE, created_at |-> 0,
     expires_at |-> session_timeout_hours * 60, logout_at |-> NoTime]

LogoutUserIds == UserIds \cup {"u3"}

NextLogout ==
    \/ \E u \in LogoutUserIds : Logout(u)
    \/ Alone("p1") /\ LoginFind("p1", "bob@example.com", "good")
    \/ LoginOkUpdate("p1")
    \/ LoginSession("p1")
    \/ \E d \in TickSteps : Tick(d)

InitLogout ==
    /\ now = 0
    /\ users = [u \in {"u1"} |-> Bob("active")]
    /\ sessions = {OldSession, OtherSession}
    /\ issued = OldTokens
    /\ jti = 2
    /\ pc = [p \in Procs |-> "idle"]
    /\ loc = [p \in Procs |-> IdleLoc]
    /\ resp = NoReply
    /\ roleUpdates = 0
    /\ streak = [u \in UserIds |-> 0]
    /\ deadline = [u \in UserIds |-> NoTime]
    /\ okSince = [u \in UserIds |-> FALSE]
    /\ tz_aware = TRUE
    /\ utc_offset = 0
    /\ transacao = NoTransacao

SpecLogout == InitLogout /\ [][NextLogout]_vars

(* Users being registered and their roles changed *)
NextUsers ==
    \/ \E p \in Procs, e \in RegisterEmails, pw \in NewPasswords,
          r \in RegisterRoles :
           RegisterInsert(p, [email |-> e, password |-> pw, role |-> r])
    \/ \E p \in Procs : RegisterAlertSent(p)
    \/ \E p \in Procs : RegisterAlertFailed(p)
    \/ \E u \in UserIds \cup NewUserIds, r \in RoleInputs : UpdateUserRole(u, r)

SpecUsers == InitClaims /\ [][NextUsers]_vars

(* A request cancelled while it awaits a store write that the store has    *)
(* applied: the caller gets no reply and asks again.                       *)
CancelledReply(req) ==
    [req EXCEPT !.op = "login", !.status = 0, !.detail = "CancelledError"]

(* cancelled in "await update_one({"$set": update_data})" *)
LoginFailUpdateCancelled(p) ==
    /\ pc[p] = "fail_update"
    /\ users' = [users EXCEPT ![loc[p].doc.id] =
                    ApplyFailedUpdate(@, loc[p].update_data)]
    /\ pc' = [pc EXCEPT ![p] = "idle"]
    /\ loc' = [loc EXCEPT ![p] = IdleLoc]
    /\ resp' = CancelledReply(LoginRequest(loc[p]))
    /\ UNCHANGED <<now, sessions, issued, jti, roleUpdates,
                   streak, deadline, okSince, tz_aware, utc_offset, transacao>>

(* cancelled in "await insert_one(session_doc)" *)
LoginSessionCancelled(p) ==
    /\ pc[p] = "session"
    /\ sessions' = sessions \cup {NewSession(loc[p].doc.id, now)}
    /\ pc' = [pc EXCEPT ![p] = "idle"]
    /\ loc' = [loc EXCEPT ![p] = IdleLoc]
    /\ resp' = CancelledReply(LoginRequest(loc[p]))
    /\ UNCHANGED <<now, users, issued, jti, roleUpdates,
                   streak, deadline, okSince, tz_aware, utc_offset, transacao>>

(* Logins one at a time, some of them cancelled and asked again *)
NextRetry ==
    \/ NextSeq
    \/ \E p \in Procs : LoginFailUpdateCancelled(p)
    \/ \E p \in Procs : LoginSessionCancelled(p)

(* bob is registered and has not logged in yet: no token is signed *)
InitRetry ==
    /\ now = 0
    /\ users = [u \in {"u1"} |-> Bob("active")]
    /\ sessions = {}
    /\ issued = {}
    /\ jti = 0
    /\ pc = [p \in Procs |-> "idle"]
    /\ loc = [p \in Procs |-> IdleLoc]
    /\ resp = NoReply
    /\ roleUpdates = 0
    /\ streak = [u \in UserIds |-> 0]
    /\ deadline = [u \in UserIds |-> NoTime]
    /\ okSince = [u \in UserIds |-> FALSE]
    /\ tz_aware = TRUE
    /\ utc_offset = 0
    /\ transacao = NoTransacao

SpecRetry == InitRetry /\ [][NextRetry]_vars

(* Transactions handed to the simulator at any hour of the day *)
NextBanking ==
    \E tipo \in TiposTransacao, valor \in Valores, destino_conta \in Contas,
       chave_pix \in ChavesPix, hour \in Horas, falha \in BOOLEAN :
        ProcessarTransacao(
            BankingTransaction(tipo, valor, destino_conta, chave_pix),
            hour, falha)

SpecBanking == InitLogout /\ [][NextBanking]_vars

(* Everything together *)
Next == NextLogin \/ NextToken \/ \E u \in UserIds : Logout(u)

Spec == Init /\ [][Next]_vars

----------------------------------------------------------------------------
(* Properties *)

Quiescent == \A p \in Procs : pc[p] = "idle"

(* the e-mail belongs to a stored user *)
Registered(email) == \E u \in DOMAIN users : users[u].email = Lower(email)

(* the reply is the InvalidCredentials response, field by field *)
IsInvalidCredentials(r) ==
    /\ r.status = 401
    /\ r.detail = "Email ou senha incorretos"
    /\ r.arg = NoTime
    /\ r.access_token = NoToken
    /\ r.refresh_token = NoToken

(* C1: once max_attempts consecutive wrong-password logins of a user have  *)
(* completed, every login made before the lock they owe runs out is        *)
(* answered AccountLocked (423), the right password included, and gets no  *)
(* tokens and no session.                                                  *)
C1_LockedAfterMaxAttempts ==
    /\ resp.op = "login" /\ resp.mustLock
          => /\ resp.status = 423
             /\ resp.access_token = NoToken
             /\ resp.refresh_token = NoToken
    /\ \A p \in Procs :
          loc[p].mustLock => pc[p] # "session" /\ loc[p].access_token = NoToken

(* C2: with the logins of a user interleaving, no increment is lost: when  *)
(* all of them have completed, N wrong-password logins since the counter   *)
(* was 0 leave the counter at N if N < max_attempts and the account locked *)
(* otherwise.                                                              *)
C2_NoLostIncrement ==
    Quiescent =>
        \A u \in DOMAIN users :
            IF streak[u] < max_failed_attempts
            THEN users[u].failed_login_attempts = streak[u]
            ELSE users[u].locked_until # NoTime

(* C3: a wrong password in the login that finds the lock run out leaves    *)
(* failed_login_attempts at 1 and the account not locked.                  *)
C3_ExpiredLockResets ==
    [][\A p \in Procs :
          pc[p] = "fail_update" /\ pc'[p] = "idle" /\ loc[p].unlocked
             => /\ users'[loc[p].doc.id].failed_login_attempts = 1
                /\ users'[loc[p].doc.id].locked_until = NoTime]_vars

(* C4: the update of a login whose password verifies leaves the counter at *)
(* 0, the lock cleared and last_login at the present time, whatever they   *)
(* were; and fewer than max_attempts failures since a successful login     *)
(* never lock the account.                                                 *)
C4_SuccessResets ==
    /\ [][\A p \in Procs :
             pc[p] = "ok_update" /\ pc'[p] # "ok_update"
                => /\ users'[loc[p].doc.id].failed_login_attempts = 0
                   /\ users'[loc[p].doc.id].locked_until = NoTime
                   /\ users'[loc[p].doc.id].last_login = now]_vars
    /\ [](\A u \in DOMAIN users :
             okSince[u] /\ streak[u] < max_failed_attempts
                => users[u].locked_until = NoTime)

(* C4 witness: a login with the right password found an expired lock and   *)
(* has cleared it                                                          *)
C4_Witness ==
    \E p \in Procs :
        /\ pc[p] = "session"
        /\ loc[p].unlocked
        /\ loc[p].doc.failed_login_attempts >= max_failed_attempts
        /\ users[loc[p].doc.id].failed_login_attempts = 0
        /\ users[loc[p].doc.id].locked_until = NoTime

(* C5 as claimed: every reply to a wrong-password login is the one an      *)
(* unregistered e-mail gets, so the replies to any sequence of them are    *)
(* the same whether or not the e-mail is registered.                       *)
C5_RepliesIdentical ==
    resp.op = "login" /\ resp.wrong => IsInvalidCredentials(resp)

(* C6: a login for an e-mail without a user is answered like a wrong       *)
(* password for an unlocked user, changes nothing that is stored, and is   *)
(* never answered with a lockout, however many there are.                  *)
C6_UnknownEmail ==
    /\ [](resp.op = "login" /\ ~Registered(resp.email)
             => IsInvalidCredentials(resp))
    /\ [](resp.op = "login" /\ Registered(resp.email) /\ resp.wrong
            /\ resp.status # 423
             => /\ resp.status = NotFoundResponse.status
                /\ resp.detail = NotFoundResponse.detail
                /\ resp.arg = NotFoundResponse.arg)
    /\ [][resp'.op = "login" /\ ~Registered(resp'.email) /\ resp' # resp
             => UNCHANGED <<users, sessions, issued, jti, streak, deadline>>]_vars

(* C6 witness: an unknown e-mail is refused while bob has failures counted *)
C6_Witness ==
    /\ resp.op = "login"
    /\ resp.email = "ghost@example.com"
    /\ resp.status = 401
    /\ users["u1"].failed_login_attempts >= 2

(* the replies of the gate *)
GateOps == {"gate_user", "gate_permission", "gate_role"}

(* token is a correctly signed Access token that has not expired at t *)
IsValidAccess(token, t) ==
    /\ token.sig = "good"
    /\ token.token_type = "access"
    /\ ~(t > token.exp)

(* C7: the gate answers anything but 401 only to a request whose token is  *)
(* a correctly signed, unexpired Access token; a malformed, badly signed,  *)
(* expired or Refresh token gets 401, and so no 403 of a permission or     *)
(* role check.                                                             *)
C7_GateAdmitsAccessOnly ==
    resp.op \in GateOps /\ ~IsValidAccess(resp.presented, now)
        => resp.status = 401

(* C8: the access token that refresh returns carries the role and the      *)
(* permissions the user has in the store when refresh runs, whatever they  *)
(* were when the refresh token was signed.                                 *)
C8_RefreshCurrentRole ==
    resp.op = "refresh" /\ resp.status = 200
        => /\ resp.user_id \in DOMAIN users
           /\ resp.access_token.token_type = "access"
           /\ resp.access_token.sub = resp.user_id
           /\ resp.access_token.role = users[resp.user_id].role
           /\ resp.access_token.permissions = users[resp.user_id].permissions
           /\ resp.role = users[resp.user_id].role

(* C8 witness: bob was made manager after his refresh token was signed,    *)
(* and the refresh with it returned a manager's access token               *)
C8_Witness ==
    /\ resp.op = "refresh" /\ resp.status = 200
    /\ resp.presented \in OldTokens
    /\ resp.access_token.role = "manager"
    /\ resp.access_token.permissions = ROLE_PERMISSIONS["manager"]
    /\ resp.access_token.iat > resp.presented.iat

(* the reply of refresh to a token that does not verify *)
TokenInvalidReply == RefreshExcept(Response(401, "TokenInvalid", NoTime))

(* C9: refresh with a refresh token that verifies, for a user who is gone  *)
(* or not active, issues no access token and fails with a reply that tells *)
(* the two cases from each other and from an invalid token.                *)
C9_RefreshErrorKinds ==
    resp.op = "refresh"
      /\ verify_token(resp.presented, "refresh", now) = "ok"
      /\ resp.presented.idkey = "sub"
        => LET gone == resp.presented.sub \notin DOMAIN users
               kind == <<resp.status, resp.detail>>
           IN /\ gone \/ users[resp.presented.sub].status # "active"
                    => /\ resp.access_token = NoToken
                       /\ kind # <<TokenInvalidReply.status,
                                   TokenInvalidReply.detail>>
              /\ gone => kind # <<UserInactive.status, UserInactive.detail>>

(* C10: refresh with a refresh token that verifies, for an active user,    *)
(* succeeds every time: it signs a new access token and returns the        *)
(* refresh token it was given, unchanged.  Nothing else makes it succeed.  *)
C10_RefreshNotConsumed ==
    resp.op = "refresh"
        => IF /\ verify_token(resp.presented, "refresh", now) = "ok"
              /\ resp.presented.idkey = "sub"
              /\ resp.presented.sub \in DOMAIN users
              /\ users[resp.presented.sub].status = "active"
           THEN /\ resp.status = 200
                /\ resp.refresh_token = resp.presented
                /\ resp.access_token \in issued
                /\ resp.access_token.token_type = "access"
                /\ resp.access_token.jti = jti - 1
           ELSE /\ resp.status = 401
                /\ resp.access_token = NoToken

(* C10 witness: the refresh token has been used before, and later, at the  *)
(* last minute of its life, it is used again                               *)
C10_Witness ==
    /\ resp.op = "refresh" /\ resp.status = 200
    /\ now = resp.presented.exp
    /\ \E tok \in issued :
          /\ tok.token_type = "access"
          /\ tok.sub = resp.presented.sub
          /\ tok.iat < now

(* C11: a login with the right password for an active user who is not     *)
(* locked at that time is answered 200 with an access and a refresh token, *)
(* token type bearer and the user's id and role; the answer comes with     *)
(* exactly one new session, active and of that user, and every session     *)
(* there was is still there unchanged.                                     *)
C11_LoginCreatesSession ==
    [][/\ \A p \in Procs :
             pc[p] = "session" /\ pc'[p] = "idle"
                => /\ resp'.status = 200
                   /\ resp'.access_token # NoToken
                   /\ resp'.refresh_token # NoToken
                   /\ resp'.detail = "bearer"
                   /\ resp'.user_id = loc[p].doc.id
                   /\ resp'.role = loc[p].doc.role
                   /\ sessions \subseteq sessions'
                   /\ Cardinality(sessions' \ sessions) = 1
                   /\ \A s \in sessions' \ sessions :
                          s.is_active /\ s.user_id = loc[p].doc.id
       /\ resp' # resp /\ resp'.op = "login" /\ ~resp'.wrong
             /\ Registered(resp'.email)
             /\ users[find_by_email(resp'.email)].status = "active"
             /\ ~IsLockedNow(users[find_by_email(resp'.email)], now)
          => resp'.status = 200]_vars

(* C11 without the lock comparison that raises: what the claim says of a   *)
(* user whose locked_until is not set                                      *)
LoginCreatesSessionNeverLocked ==
    [][/\ \A p \in Procs :
             pc[p] = "session" /\ pc'[p] = "idle"
                => /\ resp'.status = 200
                   /\ sessions \subseteq sessions'
                   /\ Cardinality(sessions' \ sessions) = 1
                   /\ \A s \in sessions' \ sessions :
                          s.is_active /\ s.user_id = loc[p].doc.id
       /\ resp' # resp /\ resp'.op = "login" /\ ~resp'.wrong
             /\ Registered(resp'.email)
             /\ users[find_by_email(resp'.email)].status = "active"
             /\ users[find_by_email(resp'.email)].locked_until = NoTime
          => resp'.status = 200]_vars

C13_PermissionGate ==
    resp.op = "gate_permission" /\ verify_jwt_token(resp.presented, now)
       => /\ resp.status \in {200, 403}
          /\ resp.status = 200
                <=> \/ resp.required \in resp.presented.permissions
                    \/ resp.presented.role = "admin"

(* C13 witness: an admin is let in for a permission its token does not     *)
(* carry                                                                   *)
C13_Witness ==
    /\ resp.op = "gate_permission"
    /\ resp.status = 200
    /\ resp.presented.role = "admin"
    /\ resp.required \notin resp.presented.permissions

C15_HasPermission ==
    resp.op = "has_permission"
       => /\ resp.result = (resp.required \in get_role_permissions(resp.role))
          /\ resp.role = "admin" /\ resp.required \in Permission => resp.result

(* C15 witness: has_permission has answered yes to admin for a permission  *)
(* of the enumeration that no other role has                               *)
C15_Witness ==
    /\ resp.op = "has_permission"
    /\ resp.role = "admin"
    /\ resp.required \in Permission
    /\ \A r \in Role \ {"admin"} : resp.required \notin ROLE_PERMISSIONS[r]
    /\ resp.result

(* C16: a permission that some role has, admin has; a permission that      *)
(* operator or readonly has, manager has.                                  *)
C16_NestedSets ==
    resp.op = "has_permission" /\ resp.result
       => /\ resp.role \in Role => has_permission("admin", resp.required)
          /\ resp.role \in {"operator", "readonly"}
                => has_permission("manager", resp.required)

(* C17: a token signed as an access token and verified at once gives back  *)
(* the user id, the role and the permissions it was signed for, and the    *)
(* type access.                                                            *)
C17_RoundTrip ==
    /\ resp.op = "verify"
    /\ resp.presented \in issued
    /\ resp.presented.idkey = "user_id"
    /\ resp.presented.token_type = "access"
    /\ resp.presented.iat = now
    => /\ resp.status = 200
       /\ resp.decoded.user_id = resp.presented.sub
       /\ resp.decoded.role = resp.presented.role
       /\ resp.decoded.permissions = resp.presented.permissions
       /\ "token_type" \in DOMAIN resp.decoded
       /\ resp.decoded.token_type = "access"

(* the part of C17 that the code keeps on a server whose clock is on UTC:   *)
(* the user id, the role and the permissions come back                     *)
RoundTripOnUtc ==
    /\ resp.op = "verify"
    /\ resp.presented \in issued
    /\ resp.presented.idkey = "user_id"
    /\ resp.presented.token_type = "access"
    /\ resp.presented.iat = now
    /\ utc_offset = 0
    => /\ resp.status = 200
       /\ resp.decoded.user_id = resp.presented.sub
       /\ resp.decoded.role = resp.presented.role
       /\ resp.decoded.permissions = resp.presented.permissions

(* C18: a token with a good signature shown after its exp is answered       *)
(* otherwise, in status or in detail, than a string that is no token.      *)
C18_ExpiredDistinct ==
    /\ resp.op \in {"verify", "gate_user", "gate_permission", "gate_role"}
    /\ resp.presented.sig = "good"
    /\ resp.presented.idkey = "user_id"
    /\ now > resp.presented.exp
    => LET malformed == IF resp.op = "verify"
                        THEN [NoReply EXCEPT !.status = 401]
                        ELSE GateReply(Garbage, <<"user", None>>)
       IN resp.status # malformed.status \/ resp.detail # malformed.detail

(* C19: the stored hash of a user changes only in the update of a request  *)
(* whose current password verified and whose new password breaks no rule;  *)
(* a request with a wrong current password is not answered 200 and changes *)
(* no hash; a request with the right current password and a new password   *)
(* that breaks a rule is answered 400 with the rules it breaks, and        *)
(* changes no hash.                                                        *)
C19_ChangePassword ==
    [][/\ \A u \in DOMAIN users :
             users'[u].hashed_password # users[u].hashed_password
                => \E p \in Procs :
                      /\ pc[p] = "pw_update" /\ pc'[p] = "idle"
                      /\ loc[p].doc.id = u
                      /\ verify_password(loc[p].password,
                                         loc[p].doc.hashed_password)
                      /\ validate_password_strength(loc[p].new_password) = {}
       /\ resp' # resp /\ resp'.op = "change_password" /\ resp'.wrong
             => /\ resp'.status # 200
                /\ \A u \in DOMAIN users :
                       users'[u].hashed_password = users[u].hashed_password
       /\ resp' # resp /\ resp'.op = "change_password" /\ ~resp'.wrong
             /\ validate_password_strength(resp'.new_password) # {}
             => /\ resp'.status = WeakNewPassword.status
                /\ resp'.detail = WeakNewPassword.detail
                /\ resp'.errors # {}
                /\ \A u \in DOMAIN users :
                       users'[u].hashed_password = users[u].hashed_password]_vars

(* C19 witness: bob has changed his password, and a later request with the *)
(* new current password and a weak new one has been refused with the rules *)
C19_Witness ==
    /\ resp.op = "change_password"
    /\ resp.status = 400
    /\ ~resp.wrong
    /\ resp.errors # {}
    /\ users["u1"].hashed_password = hash_password("NewPass1!", 2)

(* C20: create_user with a password that breaks a rule is answered with    *)
(* the weak-password error and the rules broken, with a role outside the   *)
(* enumeration it is answered with the invalid-role error, and in both     *)
(* cases the users stay as they were.                                      *)
C20_RegisterErrors ==
    [][resp' # resp /\ resp'.op = "register"
          => /\ validate_password_strength(resp'.new_password) # {}
                   => /\ resp'.status = WeakPassword.status
                      /\ resp'.detail = WeakPassword.detail
                      /\ resp'.errors # {}
                      /\ users' = users
             /\ validate_password_strength(resp'.new_password) = {}
                   /\ ~IsRole(resp'.role)
                   => /\ resp'.status = InvalidRole.status
                      /\ resp'.detail = InvalidRole.detail
                      /\ users' = users]_vars

(* the part of C20 the code keeps: a refused create_user stores no user *)
RegisterRefusedStoresNothing ==
    [][resp' # resp /\ resp'.op = "register"
          /\ \/ validate_password_strength(resp'.new_password) # {}
             \/ ~IsRole(resp'.role)
          => resp'.status # 200 /\ users' = users]_vars

(* C21: no step stores a user under an e-mail address, lower-cased, that   *)
(* a stored user already has, so no two users share an address; a          *)
(* create_user for an address in use stores nothing.                       *)
C21_UniqueEmail ==
    [][\A u \in DOMAIN users' \ DOMAIN users :
          \A v \in DOMAIN users : users'[u].email # users[v].email]_vars


(* C22: when the alert of the locking attempt raises, the login ends as    *)
(* it does when the alert is sent: the reply is InvalidCredentials and the *)
(* stored user carries update_data (the incremented counter and            *)
(* locked_until = now + lockout_duration_minutes).                         *)
C22_AlertFailureStillLocks ==
    [][\A p \in Procs :
          pc[p] = "alert" /\ pc'[p] = "idle" =>
             LET u == loc[p].doc.id
             IN /\ IsInvalidCredentials(resp')
                /\ users'[u].failed_login_attempts
                      = loc[p].update_data.failed_login_attempts
                /\ users'[u].locked_until = loc[p].update_data.locked_until]_vars

(* C23: a create_user whose insert_one has stored the user answers with    *)
(* the created user (200), whether or not the alert that follows raises.   *)
C23_RegisterAlertFailure ==
    [][\A p \in Procs :
          pc[p] = "reg_alert" /\ pc'[p] = "idle" =>
             /\ resp'.op = "register"
             /\ resp'.status = 200
             /\ resp'.user_id = loc[p].doc.id]_vars

(* the sessions of a user, and whether a logout has closed them all *)
SessionsOf(S, user_id) == {s \in S : s.user_id = user_id}

LoggedOut(S, user_id) == \A s \in SessionsOf(S, user_id) : ~s.is_active

(* a step of logout(resp'.user_id) *)
LogoutStep == resp'.op = "logout" /\ (resp' # resp \/ sessions' # sessions)

(* C24, as stated: logout(user_id) leaves every session of user_id inactive *)
(* and the sessions of the other users as they were; called again once     *)
(* the sessions of user_id are closed, it leaves the session store as it   *)
(* was; it succeeds when the user has no session.                          *)
C24_LogoutIdempotent ==
    [][LogoutStep =>
         LET user_id == resp'.user_id
         IN /\ resp'.status = 200
            /\ LoggedOut(sessions', user_id)
            /\ sessions' \ SessionsOf(sessions', user_id)
                  = sessions \ SessionsOf(sessions, user_id)
            /\ LoggedOut(sessions, user_id) => sessions' = sessions]_vars

(* the session without the time of its logout *)
NoLogoutAt(s) == [s EXCEPT !.logout_at = NoTime]

(* C24, amended: as above, but the second call leaves is_active and every  *)
(* other field of the sessions as the first did and writes the time of the *)
(* second call into logout_at of the sessions of user_id.                  *)
C24_LogoutInvalidatesAll ==
    [][LogoutStep =>
         LET user_id == resp'.user_id
         IN /\ resp'.status = 200
            /\ LoggedOut(sessions', user_id)
            /\ sessions' \ SessionsOf(sessions', user_id)
                  = sessions \ SessionsOf(sessions, user_id)
            /\ \A s \in SessionsOf(sessions', user_id) : s.logout_at = now
            /\ {NoLogoutAt(s) : s \in SessionsOf(sessions', user_id)}
                  = {[NoLogoutAt(s) EXCEPT !.is_active = FALSE] :
                        s \in SessionsOf(sessions, user_id)}]_vars

(* a second logout of a user, later than the first, while a session of     *)
(* another user is open                                                    *)
C24_Witness ==
    /\ resp.op = "logout"
    /\ now > 0
    /\ \E s \in sessions : s.user_id = resp.user_id /\ s.logout_at = now
    /\ \E s \in sessions : s.user_id # resp.user_id /\ s.is_active
    /\ \E s \in sessions : s.user_id # resp.user_id /\ ~s.is_active
                              /\ s.logout_at < now

(* a step of update_user_role(resp'.user_id, resp'.role) *)
UpdateRoleStep == resp'.op = "update_role" /\ roleUpdates' # roleUpdates

(* C25: every stored user holds the permissions of the role stored with    *)
(* it, whatever create_user and update_user_role have done; an             *)
(* update_user_role with a role that is none of the roles fails and leaves *)
(* the users as they were.                                                 *)
C25_PermissionsFollowRole ==
    /\ [](\A u \in DOMAIN users :
            users[u].permissions = get_permissions(users[u].role))
    /\ [][UpdateRoleStep /\ ~IsRole(resp'.role) =>
             resp'.status # 200 /\ users' = users]_vars

(* a registered user was given another role, and a role that is none was   *)
(* refused afterwards                                                      *)
C25_Witness ==
    /\ resp.op = "update_role" /\ resp.status # 200 /\ ~IsRole(resp.role)
    /\ \E u \in DOMAIN users \cap NewUserIds :
          /\ users[u].role = "manager"
          /\ users[u].permissions = ROLE_PERMISSIONS["manager"]
          /\ users[u].permissions # ROLE_PERMISSIONS["operator"]

(* C26: in every state of a stored user, whatever the interleaving of the  *)
(* logins for it, locked_until is set exactly when failed_login_attempts   *)
(* has reached max_failed_attempts.                                        *)
C26_LockedIffMaxAttempts ==
    \A u \in DOMAIN users :
        users[u].locked_until # NoTime
           <=> users[u].failed_login_attempts >= max_failed_attempts

(* C27: a login that starts while the user it finds is locked (now before  *)
(* locked_until) is answered at the lock check: it does not go on to the   *)
(* password verification, gets no tokens, and leaves                       *)
(* failed_login_attempts, locked_until and last_login of the user as they  *)
(* were.                                                                   *)
C27_LockedLoginChangesNothing ==
    [][\A u \in DOMAIN users :
          users[u].locked_until # NoTime /\ now < users[u].locked_until =>
             /\ \A p \in Procs :
                   ~(pc[p] = "idle" /\ pc'[p] # "idle" /\ loc'[p].doc.id = u)
             /\ resp' # resp /\ resp'.op = "login" /\ pc' = pc
                   /\ Lower(resp'.email) = users[u].email
                   => /\ resp'.status # 200
                      /\ resp'.access_token = NoToken
                      /\ users'[u].failed_login_attempts
                            = users[u].failed_login_attempts
                      /\ users'[u].locked_until = users[u].locked_until
                      /\ users'[u].last_login = users[u].last_login]_vars

(* the right password was refused at the lock check of a user that is      *)
(* still locked                                                            *)
C27_Witness ==
    /\ resp.op = "login" /\ resp.status = 423 /\ ~resp.wrong
    /\ \E u \in DOMAIN users :
          /\ users[u].email = Lower(resp.email)
          /\ users[u].locked_until # NoTime /\ now < users[u].locked_until
          /\ users[u].failed_login_attempts >= max_failed_attempts

(* C28: login checks the lock before the password and the password before  *)
(* the status.  A login started on a locked user is answered AccountLocked *)
(* whatever its password and the status of the user; for a user that is    *)
(* not active, a wrong password is answered InvalidCredentials and adds    *)
(* one to failed_login_attempts, and the right password is answered        *)
(* AccountInactive with no token signed and no session created.            *)
C28_CheckOrder ==
    [][\A p \in Procs :
          /\ \A u \in DOMAIN users :
                /\ users[u].locked_until # NoTime
                /\ now < users[u].locked_until
                /\ pc[p] = "idle" /\ pc' = pc
                /\ resp' # resp /\ resp'.op = "login"
                /\ Lower(resp'.email) = users[u].email
                => resp'.status = 423
          /\ pc[p] \in {"alert", "fail_update"} /\ pc'[p] = "idle"
                /\ loc[p].doc.status # "active"
                => /\ IsInvalidCredentials(resp')
                   /\ users'[loc[p].doc.id].failed_login_attempts
                         = loc[p].doc.failed_login_attempts + 1
          /\ pc[p] = "ok_update" /\ pc'[p] # "ok_update"
                /\ loc[p].doc.status # "active"
                => /\ resp'.op = "login" /\ resp'.status = 403
                   /\ resp'.access_token = NoToken
                   /\ resp'.refresh_token = NoToken
                   /\ pc'[p] = "idle"
                   /\ issued' = issued /\ sessions' = sessions]_vars

(* the request in flight at p repeats the one whose cancellation resp      *)
(* reports                                                                 *)
IsRetry(p) ==
    /\ resp.op = "login" /\ resp.detail = "CancelledError"
    /\ pc[p] # "idle"
    /\ loc[p].doc.email = resp.email
    /\ resp.wrong = ~verify_password(loc[p].password, loc[p].doc.hashed_password)

(* C29: a login cancelled after its store writes were applied and asked    *)
(* again only re-applies the same transition: no step of the retry changes *)
(* failed_login_attempts or locked_until of the user or the set of         *)
(* sessions, which are already those of one uninterrupted execution.       *)
C29_RetryReappliesSame ==
    [][\A p \in Procs :
          IsRetry(p) =>
             LET u == loc[p].doc.id
             IN /\ users'[u].failed_login_attempts
                      = users[u].failed_login_attempts
                /\ users'[u].locked_until = users[u].locked_until
                /\ sessions' = sessions]_vars

(* the PIX limit of the claim: limite_noturno from 20h to 6h, limite_diario *)
(* at the other hours                                                      *)
LimiteAplicavel(hour) ==
    IF hour >= 20 \/ hour < 6 THEN limite_noturno ELSE limite_diario

(* C30: a PIX transaction that passes the general validation and whose     *)
(* value exceeds the PIX limit of its hour never leaves                    *)
(* processar_transacao approved: it is rejected with the message of the    *)
(* limit.                                                                  *)
C30_PixOverLimitRejected ==
    /\ transacao.tipo = "pix"
    /\ transacao.status # "pendente"
    /\ validar_transacao(transacao) = None
    /\ transacao.valor > LimiteAplicavel(transacao.agora)
    => /\ transacao.status = "rejeitada"
       /\ transacao.error_message
             \in {LimiteMessage(limite_noturno), LimiteMessage(limite_diario)}

============================================================================
